---- MODULE Spec2Model ----
(***************************************************************************)
(* A model of the refresh/summarize pipeline of the AI news agent backend: *)
(* the fetch adapters and their upsert into an entity table                *)
(* (app/ingest/*.py) and the summarization runs over the rows without a    *)
(* summary (app/scheduler.py).                                             *)
(*                                                                         *)
(* Text is a sequence of segments [s, n]: n characters of content s. Two   *)
(* texts are equal iff their segments are; a prefix cuts segments.         *)
(* Optional values are <<>> (None) or <<v>>.                               *)
(***************************************************************************)
EXTENDS Integers, Sequences, FiniteSets, TLC

VARIABLES
    kind,       \* the entity table modelled: "Article", "News" or "Paper"
    db,         \* the table: a sequence of rows, a row's id is its position
    now,        \* datetime.utcnow(), in days
    fpc,        \* fetch run p: "idle", "run" (between entries), "insert"/"update" (commit pending)
    farg,       \* fetch run p: adapter, cutoff, min_points, enable_llm_filter
    frec,       \* fetch run p: the entry whose commit is pending
    fexist,     \* fetch run p: the row the lookup by url returned (None or Some(row))
    fchanged,   \* fetch run p: new_or_updated, as ids
    fseen,      \* fetch run p: seen_urls (Hacker News adapter)
    ev,         \* the last step: what it did, and the entry it handled
    lastIn,     \* the adapter and entry of the last entry step, when it upserted
    spc,        \* summarization run r: "idle", "seq", "batch", "drain", "done", "crashed"
    sarg,       \* summarization run r: entry point, limit, concurrency
    squeue,     \* summarization run r: the ids selected, in queue order
    spos,       \* summarization run r: the next position of the row loop
    sproc,      \* summarization run r: processed, the summaries it committed
    stask,      \* summarization run r: the remote task of each position
    ssem,       \* summarization run r: the permits left in asyncio.Semaphore
    sorder,     \* summarization run r: the positions in the order their tasks ended
    sout,       \* summarization run r: what it yielded, <<id, "ok" or "error">>
    swrote,     \* summarization run r: the ids whose summary it wrote
    snonnull,   \* summarization run r: the ids that had a summary when it started
    cls,        \* the reply of the remote classifier in the last entry step
    fsrcs,      \* fetch run 1: sources, in the order the caller gave them
    flog,       \* fetch run 1: the sources it fetched so far, and what each gave
    rpc,        \* the refresh request: "idle", "unauthorized", or its position in gen()
    rarg,       \* the refresh request: endpoint, tokens, include_hn, limit, concurrency
    rout,       \* the refresh request: the lines gen() yielded so far
    engine,     \* db._engine: 0 for None, else the number of the engine it holds
    created,    \* the number of engines create_engine has made in the process
    epc,        \* thread t: its position in get_engine
    eret,       \* thread t: what its last call of get_engine returned, 0 when none
    ecalls,     \* thread t: the calls of get_engine it has made
    served,     \* what the news feed and Hacker News deliver, the same in every run
    rounds      \* the runs of fetch_news and of fetch_hn that have returned

ingestVars == <<kind, db, now, fpc, farg, frec, fexist, fchanged, fseen, ev, lastIn>>
fetchVars == <<fpc, farg, frec, fexist, fchanged, fseen, lastIn>>
sumVars == <<spc, sarg, squeue, spos, sproc, stask, ssem, sorder, sout, swrote, snonnull>>
srcVars == <<cls, fsrcs, flog>>
reqVars == <<rpc, rarg, rout>>
engVars == <<engine, created, epc, eret, ecalls>>
convVars == <<served, rounds>>
extVars == <<srcVars, reqVars, engVars, convVars>>
vars == <<ingestVars, sumVars, extVars>>

(*************************** bounds ****************************************)
MaxRows == 3        \* the table holds at most this many rows
MaxClock == 9       \* the clock runs from MaxClock - 1 to MaxClock
MaxChanged == 2     \* a fetch run commits at most this many changes

(*************************** program constants *****************************)
max_age_days_default == 7
HashPrefixLen == 1000
hn_min_points == 10

(*************************** optional values and text **********************)
None == <<>>
Some(x) == <<x>>
Val(o) == o[1]

Seg(s, n) == [s |-> s, n |-> n]

RECURSIVE TextLen(_)
TextLen(t) == IF t = <<>> THEN 0 ELSE Head(t).n + TextLen(Tail(t))

\* t[:k]
RECURSIVE TakeText(_, _)
TakeText(t, k) ==
    IF t = <<>> \/ k <= 0 THEN <<>>
    ELSE IF Head(t).n <= k THEN <<Head(t)>> \o TakeText(Tail(t), k - Head(t).n)
    ELSE <<Seg(Head(t).s, k)>>

\* Python truthiness of an Optional[str]: neither None nor ""
OptTruthy(o) == o # None /\ Val(o) # <<>>
\* (o or "")
OrEmpty(o) == IF OptTruthy(o) THEN Val(o) ELSE <<>>

(*************************** input domains *********************************)
Procs == {1, 2}
Kinds == {"Article", "News", "Paper"}
Urls == {"A", "B", "C"}

TAi == <<Seg("ai", 10)>>            \* a title holding one of AI_KEYWORDS
TOther == <<Seg("x", 10)>>          \* a title holding none
Titles == {<<>>, TAi, TOther}

D1 == <<Seg("x", 40)>>
D2 == <<Seg("y", 40)>>
DLong1 == <<Seg("x", 1000), Seg("p", 5)>>   \* equal up to the hashed prefix
DLong2 == <<Seg("x", 1000), Seg("q", 5)>>
DAi == <<Seg("ai", 40)>>            \* a description holding one of AI_KEYWORDS
Descriptions == {None, Some(D1), Some(D2), Some(DAi), Some(DLong1), Some(DLong2)}

\* no date, a date max_age_days_default before the first clock value, that value
PubTimes == {None, Some(MaxClock - 1 - max_age_days_default), Some(MaxClock - 1)}
MaxAges == {None, Some(0), Some(1)}
Points == {None, Some(0), Some(hn_min_points)}
MinPoints == {None, Some(0)}
LlmAnswers == {None, Some(TRUE), Some(FALSE)}
\* what the chat call of the classifier comes to: it raises or times out
\* ("error"), or the content of the reply, stripped and lowercased
LlmReplies == {"error", "yes", "no", ""}

\* a feed entry after field extraction (rss_fetcher.py:113-118), or a Hacker
\* News hit after it (hn_fetcher.py:134-141)
FeedEntries ==
    [title : Titles, url : Urls \cup {""}, description : Descriptions,
     published_at : PubTimes, points : {None}]
HnHits ==
    [title : Titles, url : Urls \cup {""}, description : {None},
     published_at : PubTimes, points : Points]

(*************************** the entity table ******************************)
AdaptersOf(k) ==
    CASE k = "Article" -> {"rss"}
      [] k = "News" -> {"news", "hn"}
      [] k = "Paper" -> {"arxiv", "arxiv_stream"}

AllAdapters == {"rss", "news", "hn", "arxiv", "arxiv_stream"}

EntriesOf(a) == IF a = "hn" THEN HnHits ELSE FeedEntries

ArticleUrlUnique_off == FALSE

\* url: str = Field(index=True, unique=True) of Article
ArticleUrlUnique == TRUE
\* the url column of News and Paper: "url is globally unique per entity kind"
OtherUrlUnique == TRUE
UrlUnique(k) == IF k = "Article" THEN ArticleUrlUnique ELSE OtherUrlUnique

\* select(...).where(url == u).first(): the row's position, 0 when there is none
SelectByUrl(t, u) ==
    IF \E i \in 1..Len(t) : t[i].url = u
    THEN CHOOSE i \in 1..Len(t) : t[i].url = u /\ \A j \in 1..(i - 1) : t[j].url # u
    ELSE 0

RowsWithUrl(t, u) == {i \in 1..Len(t) : t[i].url = u}

\* sha1 of the joined text, taken to be collision free
ComputeHash(title, url, description) ==
    <<title, url, TakeText(OrEmpty(description), HashPrefixLen)>>

AI_KEYWORD_SEGS == {"ai"}
is_ai_related_keywords(title, description) ==
    \E i \in 1..Len(title \o OrEmpty(description)) :
        (title \o OrEmpty(description))[i].s \in AI_KEYWORD_SEGS

(*************************** fetch adapters ********************************)
\* max_age_days if max_age_days is not None else settings.max_age_days_default
EffectiveMaxAge(mad) == IF mad # None THEN Val(mad) ELSE max_age_days_default

\* utcnow() - timedelta(days=max_age_days) if max_age_days and max_age_days > 0 else None
Cutoff(mad, t) ==
    IF EffectiveMaxAge(mad) > 0 THEN Some(t - EffectiveMaxAge(mad)) ELSE None

TooOld_inclusive(cutoff, published_at) ==
    cutoff # None /\ (published_at = None \/ Val(published_at) <= Val(cutoff))

\* cutoff and (not published_at or published_at < cutoff)
TooOld(cutoff, published_at) ==
    cutoff # None /\ (published_at = None \/ Val(published_at) < Val(cutoff))

\* isinstance(points, int) and points < int(min_points)
LowPoints(arg, e) ==
    e.points # None /\
    Val(e.points) < (IF arg.min_points # None THEN Val(arg.min_points) ELSE hn_min_points)

\* _call_chat returns None on any exception; else text.startswith("y")
is_ai_related_llm_sync(reply) ==
    IF reply = "error" THEN None ELSE Some(reply = "yes")

Relevant_failclosed(title, description, llm) ==
    is_ai_related_keywords(title, description) \/ llm = Some(TRUE)

\* bool(keyword_hit or (True if llm_hit is None else llm_hit))
Relevant(title, description, llm) ==
    LET keyword_hit == is_ai_related_keywords(title, description)
        llm_hit == IF ~keyword_hit THEN llm ELSE Some(TRUE)
    IN  keyword_hit \/ (IF llm_hit = None THEN TRUE ELSE Val(llm_hit))

HasFilter(a) == a \in {"rss", "news", "hn"}

\* the step of the adapter that rejects entry e, "" when none does
Rejected(arg, e, llm, seen) ==
    IF arg.adapter = "hn"
    THEN CASE TooOld(arg.cutoff, e.published_at) -> "skip_old"
           [] LowPoints(arg, e) -> "skip_points"
           [] arg.filter /\ ~Relevant(e.title, None, llm) -> "skip_irrelevant"
           [] e.url = "" -> "skip_nourl"
           [] e.url \in seen -> "skip_seen"
           [] OTHER -> ""
    ELSE CASE e.url = "" -> "skip_nourl"
           [] TooOld(arg.cutoff, e.published_at) -> "skip_old"
           [] HasFilter(arg.adapter) /\ arg.filter
                /\ ~Relevant(e.title, e.description, llm) -> "skip_irrelevant"
           [] OTHER -> ""

\* the description the adapter hands to the upsert
InDescription(a, e) == IF a = "hn" THEN None ELSE e.description

DescriptionChanged_any(a, e, ex) == a # "hn" /\ e.description # ex.description

DescriptionChanged(a, e, ex) ==
    a # "hn" /\ OptTruthy(e.description) /\ e.description # ex.description

\* published_at and (not existing.published_at or existing.published_at != published_at)
PublishedChanged_any(e, ex) == e.published_at # ex.published_at

PublishedChanged(e, ex) ==
    \/ e.published_at # None /\ ex.published_at = None
    \/ e.published_at # None /\ ex.published_at # None /\ e.published_at # ex.published_at

HashChanged_nodesc(a, e, ex) == ComputeHash(e.title, e.url, None) # ex.content_hash

\* existing.content_hash != content_hash
HashChanged(a, e, ex) ==
    ComputeHash(e.title, e.url, InDescription(a, e)) # ex.content_hash

\* the changed flag of the update branch
Changed(a, e, ex) ==
    DescriptionChanged(a, e, ex) \/ PublishedChanged(e, ex) \/ HashChanged(a, e, ex)

SourceLabel(a) == IF a = "hn" THEN "Hacker News" ELSE a

NewRow(a, e, id, t) ==
    [id |-> id, title |-> e.title, url |-> e.url, source |-> SourceLabel(a),
     published_at |-> e.published_at, description |-> InDescription(a, e),
     summary |-> None, content_hash |-> ComputeHash(e.title, e.url, InDescription(a, e)),
     created_at |-> t, updated_at |-> t]

UpdatedRow_snapshot(a, e, ex, cur, t) ==
    [ex EXCEPT
        !.description = IF DescriptionChanged(a, e, ex) THEN e.description ELSE @,
        !.published_at = IF PublishedChanged(e, ex) THEN e.published_at ELSE @,
        !.content_hash = IF HashChanged(a, e, ex)
                         THEN ComputeHash(e.title, e.url, InDescription(a, e)) ELSE @,
        !.updated_at = t]

\* the UPDATE the unit of work emits: the assigned attributes only, on the row
\* of the same id as it is stored now
UpdatedRow(a, e, ex, cur, t) ==
    [cur EXCEPT
        !.description = IF DescriptionChanged(a, e, ex) THEN e.description ELSE @,
        !.published_at = IF PublishedChanged(e, ex) THEN e.published_at ELSE @,
        !.content_hash = IF HashChanged(a, e, ex)
                         THEN ComputeHash(e.title, e.url, InDescription(a, e)) ELSE @,
        !.updated_at = t]

NoEntry == [title |-> <<>>, url |-> "", description |-> None, published_at |-> None,
            points |-> None]
NoArg == [adapter |-> "", max_age_days |-> None, t0 |-> 0, cutoff |-> None,
          min_points |-> None, flag |-> FALSE, filter |-> FALSE]
Ev(op, again, e) == [op |-> op, again |-> again, e |-> e]
Again(a, e) == lastIn = <<a, e>>

\* session.commit() of a new row goes through: the database accepts the write
\* and no stored row has the url
InsertOk(t, u, dbok) == dbok /\ (UrlUnique(kind) => RowsWithUrl(t, u) = {})
Inserted(t, a, e, time) == Append(t, NewRow(a, e, Len(t) + 1, time))
Updated(t, a, e, ex, time) == [t EXCEPT ![ex.id] = UpdatedRow(a, e, ex, @, time)]

AfterUpdateFailure_caught(a) == "run"

\* where a run is after session.commit() of the update branch raised: nothing
\* in the entry loop catches it; the Hacker News adapter catches it around the
\* term (hn_fetcher.py:154) and the streaming arXiv adapter around the feed
\* (arxiv_fetcher.py:255), which ends the entries of that source
AfterUpdateFailure(a) == IF a \in {"hn", "arxiv_stream"} THEN "run" ELSE "crashed"

\* fetch_*(max_age_days=mad, min_points=mp) is called
StartFetch(p, a, mad, mp, flt) ==
    /\ fpc[p] = "idle"
    /\ a \in AdaptersOf(kind)
    /\ fpc' = [fpc EXCEPT ![p] = "run"]
    /\ farg' = [farg EXCEPT ![p] =
            [adapter |-> a, max_age_days |-> mad, t0 |-> now, cutoff |-> Cutoff(mad, now),
             min_points |-> IF a = "hn" THEN mp ELSE None,
             flag |-> flt, filter |-> HasFilter(a) /\ flt]]
    /\ fchanged' = [fchanged EXCEPT ![p] = <<>>]
    /\ fseen' = [fseen EXCEPT ![p] = {}]
    /\ ev' = Ev("start", FALSE, NoEntry)
    /\ UNCHANGED <<kind, db, now, frec, fexist, lastIn, sumVars>>

\* one entry of a feed, start to end, in a run no other writer interleaves with:
\* the filters, the lookup by url, and the insert or the update and its commit
EntryStep(p, e, llm, dbok) ==
    /\ fpc[p] = "run"
    /\ e \in EntriesOf(farg[p].adapter)
    /\ LET a == farg[p].adapter
           rej == Rejected(farg[p], e, llm, fseen[p])
           i == SelectByUrl(db, e.url)
       IN  IF rej # ""
           THEN /\ ev' = Ev(rej, Again(a, e), e)
                /\ lastIn' = <<>>
                /\ UNCHANGED <<db, fchanged, fseen>>
           ELSE /\ fseen' = [fseen EXCEPT ![p] = IF a = "hn" THEN @ \cup {e.url} ELSE @]
                /\ IF i # 0
                   THEN IF Changed(a, e, db[i]) /\ dbok
                        THEN /\ Len(fchanged[p]) < MaxChanged
                             /\ db' = Updated(db, a, e, db[i], now)
                             /\ fchanged' = [fchanged EXCEPT ![p] = Append(@, i)]
                             /\ ev' = Ev("update", Again(a, e), e)
                             /\ lastIn' = <<a, e>>
                        ELSE IF Changed(a, e, db[i])
                        THEN \* session.commit() raises, outside any try of the loop body
                             /\ ev' = Ev("update_failed", Again(a, e), e)
                             /\ lastIn' = <<>>
                             /\ UNCHANGED <<db, fchanged>>
                        ELSE /\ ev' = Ev("noop", Again(a, e), e)
                             /\ lastIn' = <<a, e>>
                             /\ UNCHANGED <<db, fchanged>>
                   ELSE IF InsertOk(db, e.url, dbok)
                        THEN /\ Len(fchanged[p]) < MaxChanged
                             /\ Len(db) < MaxRows
                             /\ db' = Inserted(db, a, e, now)
                             /\ fchanged' = [fchanged EXCEPT ![p] = Append(@, Len(db) + 1)]
                             /\ ev' = Ev("insert", Again(a, e), e)
                             /\ lastIn' = <<a, e>>
                        ELSE \* except Exception: session.rollback(); continue
                             /\ ev' = Ev("rollback", Again(a, e), e)
                             /\ lastIn' = <<>>
                             /\ UNCHANGED <<db, fchanged>>
    /\ fpc' = [fpc EXCEPT ![p] =
           IF ev'.op = "update_failed" THEN AfterUpdateFailure(farg[p].adapter) ELSE @]
    /\ UNCHANGED <<kind, now, farg, frec, fexist, sumVars>>

\* one entry of a feed up to its lookup by url, in a run other writers
\* interleave with: the commit of a write it decides on is a later step
Lookup(p, e, llm) ==
    /\ fpc[p] = "run"
    /\ e \in EntriesOf(farg[p].adapter)
    /\ LET a == farg[p].adapter
           rej == Rejected(farg[p], e, llm, fseen[p])
           i == SelectByUrl(db, e.url)
       IN  IF rej # ""
           THEN /\ ev' = Ev(rej, Again(a, e), e)
                /\ lastIn' = <<>>
                /\ UNCHANGED <<fpc, frec, fexist, fseen>>
           ELSE /\ fseen' = [fseen EXCEPT ![p] = IF a = "hn" THEN @ \cup {e.url} ELSE @]
                /\ IF i # 0 /\ ~Changed(a, e, db[i])
                   THEN /\ ev' = Ev("noop", Again(a, e), e)
                        /\ lastIn' = <<a, e>>
                        /\ UNCHANGED <<fpc, frec, fexist>>
                   ELSE /\ Len(fchanged[p]) < MaxChanged
                        /\ fpc' = [fpc EXCEPT ![p] = IF i # 0 THEN "update" ELSE "insert"]
                        /\ frec' = [frec EXCEPT ![p] = e]
                        /\ fexist' = [fexist EXCEPT ![p] = IF i # 0 THEN Some(db[i]) ELSE None]
                        /\ ev' = Ev(IF i # 0 THEN "found" ELSE "missing", Again(a, e), e)
                        /\ lastIn' = <<>>
    /\ UNCHANGED <<kind, db, now, farg, fchanged, sumVars>>

\* session.add(row); session.commit() of the insert branch
CommitInsert(p, dbok) ==
    /\ fpc[p] = "insert"
    /\ fpc' = [fpc EXCEPT ![p] = "run"]
    /\ frec' = [frec EXCEPT ![p] = NoEntry]
    /\ fexist' = [fexist EXCEPT ![p] = None]
    /\ IF InsertOk(db, frec[p].url, dbok)
       THEN /\ Len(db) < MaxRows
            /\ db' = Inserted(db, farg[p].adapter, frec[p], now)
            /\ fchanged' = [fchanged EXCEPT ![p] = Append(@, Len(db) + 1)]
            /\ ev' = Ev("insert", FALSE, frec[p])
            /\ lastIn' = <<farg[p].adapter, frec[p]>>
       ELSE \* except Exception: session.rollback(); continue
            /\ ev' = Ev("rollback", FALSE, frec[p])
            /\ UNCHANGED <<db, fchanged, lastIn>>
    /\ UNCHANGED <<kind, now, farg, fseen, sumVars>>

\* session.add(existing); session.commit() of the update branch
CommitUpdate(p, dbok) ==
    /\ fpc[p] = "update"
    /\ frec' = [frec EXCEPT ![p] = NoEntry]
    /\ fexist' = [fexist EXCEPT ![p] = None]
    /\ IF dbok
       THEN /\ db' = Updated(db, farg[p].adapter, frec[p], Val(fexist[p]), now)
            /\ fchanged' = [fchanged EXCEPT ![p] = Append(@, Val(fexist[p]).id)]
            /\ fpc' = [fpc EXCEPT ![p] = "run"]
            \* "update_stale": the row was written after the lookup read it
            /\ ev' = Ev(IF db[Val(fexist[p]).id] # Val(fexist[p])
                        THEN "update_stale" ELSE "update", FALSE, frec[p])
            /\ lastIn' = <<farg[p].adapter, frec[p]>>
       ELSE /\ fpc' = [fpc EXCEPT ![p] = AfterUpdateFailure(farg[p].adapter)]
            /\ ev' = Ev("update_failed", FALSE, frec[p])
            /\ UNCHANGED <<db, fchanged, lastIn>>
    /\ UNCHANGED <<kind, now, farg, fseen, sumVars>>

\* the exception leaves fetch_*(): the run is over, its caller has the exception
FetchRaised(p) ==
    /\ fpc[p] = "crashed"
    /\ fpc' = [fpc EXCEPT ![p] = "idle"]
    /\ farg' = [farg EXCEPT ![p] = NoArg]
    /\ fchanged' = [fchanged EXCEPT ![p] = <<>>]
    /\ fseen' = [fseen EXCEPT ![p] = {}]
    /\ ev' = Ev("raised", FALSE, NoEntry)
    /\ UNCHANGED <<kind, db, now, frec, fexist, lastIn, sumVars>>

\* return new_or_updated
EndFetch(p) ==
    /\ fpc[p] = "run"
    /\ fpc' = [fpc EXCEPT ![p] = "idle"]
    /\ farg' = [farg EXCEPT ![p] = NoArg]
    /\ fchanged' = [fchanged EXCEPT ![p] = <<>>]
    /\ fseen' = [fseen EXCEPT ![p] = {}]
    /\ ev' = Ev("end", FALSE, NoEntry)
    /\ UNCHANGED <<kind, db, now, frec, fexist, lastIn, sumVars>>

Tick ==
    /\ now < MaxClock
    /\ now' = now + 1
    /\ ev' = Ev("tick", FALSE, NoEntry)
    /\ UNCHANGED <<kind, db, fetchVars, sumVars>>


(*************************** summarizers ***********************************)
TitleLimit == 120
ExtractLimit == 180
LlmText == <<Seg("llm", 50)>>

IsWs(g) == g.s = "ws"

\* Op(x), with x evaluated once
Strict(Op(_), x) == CHOOSE r \in {Op(v) : v \in {x}} : TRUE

\* adjacent blanks as one segment
RECURSIVE MergeWs(_)
MergeWs(t) ==
    IF Len(t) < 2 THEN t
    ELSE IF IsWs(t[1]) /\ IsWs(t[2])
         THEN MergeWs(<<Seg("ws", t[1].n + t[2].n)>> \o SubSeq(t, 3, Len(t)))
         ELSE <<t[1]>> \o MergeWs(Tail(t))

\* text.strip()
StripNow(t) ==
    LET keep == {i \in 1..Len(t) : ~IsWs(t[i])}
    IN  IF keep = {} THEN <<>>
        ELSE SubSeq(t, CHOOSE i \in keep : \A j \in keep : i <= j,
                       CHOOSE i \in keep : \A j \in keep : i >= j)
Strip(t) == Strict(StripNow, t)

\* re.sub(r"\s+", " ", text)
CollapseNow(t) == [i \in 1..Len(t) |-> IF IsWs(t[i]) THEN Seg("ws", 1) ELSE t[i]]
CollapseWs(t) == Strict(CollapseNow, Strict(MergeWs, t))

\* re.sub(r"https?://\S+", "", text): a url goes with the text up to the next blank
RECURSIVE DropUrls(_, _)
DropUrls(t, inUrl) ==
    IF t = <<>> THEN <<>>
    ELSE IF Head(t).s = "url" THEN DropUrls(Tail(t), TRUE)
    ELSE IF IsWs(Head(t)) THEN <<Head(t)>> \o DropUrls(Tail(t), FALSE)
    ELSE IF inUrl THEN DropUrls(Tail(t), TRUE)
    ELSE <<Head(t)>> \o DropUrls(Tail(t), FALSE)
DropAllUrls(t) == DropUrls(t, FALSE)

Clean(text) ==
    Strip(Strict(MergeWs, Strict(DropAllUrls, Strip(CollapseWs(text)))))

\* " ".join(re.split(r"(?<=[.!?])\s+", desc)[:k]): a blank after a segment "end"
\* (text ending a sentence) splits
RECURSIVE FirstSentences(_, _, _)
FirstSentences(t, k, afterEnd) ==
    IF t = <<>> THEN <<>>
    ELSE IF IsWs(Head(t)) /\ afterEnd
         THEN IF k <= 1 THEN <<>>
              ELSE <<Seg("ws", 1)>> \o FirstSentences(Tail(t), k - 1, FALSE)
         ELSE <<Head(t)>> \o FirstSentences(Tail(t), k, Head(t).s = "end")
FirstTwoSentences(desc) == FirstSentences(desc, 2, FALSE)

TitlePrefix(title) == TakeText(title, TitleLimit)
ExtractPrefix_whole(out) == out
ExtractPrefix(out) == TakeText(out, ExtractLimit)

\* the local summary of a cleaned description desc
ExtractFrom(title, desc) ==
    LET out == Strip(Strict(FirstTwoSentences, desc))
    IN  IF desc = <<>> THEN Some(TitlePrefix(title))
        ELSE IF out # <<>> THEN Some(Strict(ExtractPrefix, out))
        ELSE IF title # <<>> THEN Some(TitlePrefix(title))
        ELSE None

summarize_extractive_untitled(title, description) == Some(TAi)

summarize_extractive(title, description) ==
    IF title = <<>> /\ ~OptTruthy(description) THEN None
    ELSE CHOOSE r \in {ExtractFrom(title, desc) : desc \in {Clean(OrEmpty(description))}} :
            TRUE

\* what the remote call gives: "text", "none" (no answer, an error, a timeout),
\* or "exc" (it raises)
summarize_with_llm_sync(outcome) == IF outcome = "text" THEN Some(LlmText) ELSE None
summarize_with_llm_async(outcome) == IF outcome = "text" THEN Some(LlmText) ELSE None
SyncOutcomes == {"text", "none"}
AsyncOutcomes == {"text", "none", "exc"}

(*************************** summarization runs ****************************)
Runs == {1, 2}
SumEntryPoints == {"pending", "stream", "stream_async", "papers", "news"}
SumEntryPointsOf(k) ==
    CASE k = "Article" -> {"pending", "stream", "stream_async"}
      [] k = "News" -> {"news"}
      [] k = "Paper" -> {"papers"}

\* ORDER BY published_at IS NULL, published_at DESC, created_at DESC; rows the
\* ORDER BY ties come in id order
QueueBefore(a, b) ==
    IF (a.published_at = None) # (b.published_at = None) THEN b.published_at = None
    ELSE IF a.published_at # b.published_at THEN Val(a.published_at) > Val(b.published_at)
    ELSE IF a.created_at # b.created_at THEN a.created_at > b.created_at
    ELSE a.id < b.id

\* ORDER BY published_at DESC (summarize_stream_async); NULL sorts last
QueueBeforeAsync(a, b) ==
    IF (a.published_at = None) # (b.published_at = None) THEN b.published_at = None
    ELSE IF a.published_at # b.published_at THEN Val(a.published_at) > Val(b.published_at)
    ELSE a.id < b.id

RowBefore(entry, a, b) ==
    IF entry = "stream_async" THEN QueueBeforeAsync(a, b) ELSE QueueBefore(a, b)

RECURSIVE SortIds(_, _, _)
SortIds(S, t, entry) ==
    IF S = {} THEN <<>>
    ELSE LET m == CHOOSE x \in S : \A y \in S \ {x} : RowBefore(entry, t[x], t[y])
         IN  <<m>> \o SortIds(S \ {m}, t, entry)

Pending_all(t) == 1..Len(t)

\* .where(summary == None)
Pending(t) == {i \in 1..Len(t) : t[i].summary = None}

\* the rows a run works on: articles[:limit]; the paper and news runs loop over
\* all of them and count
ToProcess(t, entry, limit) ==
    LET q == SortIds(Pending(t), t, entry)
    IN  IF entry \in {"papers", "news"} THEN q
        ELSE SubSeq(q, 1, IF limit < Len(q) THEN limit ELSE Len(q))

Concurrent(arg) == arg.entry \in {"stream", "stream_async"} /\ arg.concurrency > 1
Permits_more(arg) == arg.concurrency + 1

\* asyncio.Semaphore(max(1, int(concurrency)))
Permits(arg) == IF arg.concurrency > 1 THEN arg.concurrency ELSE 1

NoTask == [st |-> "wait", res |-> ""]
NoSumArg == [entry |-> "", limit |-> 0, concurrency |-> 0]
NoEv(op) == Ev(op, FALSE, NoEntry)

\* row.summary = text; session.add(row); session.commit()
SummaryWritten(t, id, text) == [t EXCEPT ![id].summary = text]

TextFor_remote(row, remote) == remote

\* the text of a row: the remote answer, else the local extractive summary
TextFor(row, remote) == IF OptTruthy(remote) THEN remote
                        ELSE summarize_extractive(row.title, row.description)

\* a summarization entry point is called: it selects its rows
StartSum(r, entry, limit, conc, loopok) ==
    /\ spc[r] = "idle"
    /\ entry \in SumEntryPointsOf(kind)
    /\ LET arg == [entry |-> entry, limit |-> limit, concurrency |-> conc]
           q == ToProcess(db, entry, limit)
       IN  /\ sarg' = [sarg EXCEPT ![r] = arg]
           /\ squeue' = [squeue EXCEPT ![r] = q]
           /\ spc' = [spc EXCEPT ![r] =
                  IF q = <<>> THEN "done"
                  ELSE IF ~Concurrent(arg) THEN "seq"
                  ELSE IF entry = "stream" /\ ~loopok THEN "drain" ELSE "batch"]
           \* except Exception: results.append((art, None, e)) for every row
           /\ stask' = [stask EXCEPT ![r] =
                  [k \in 1..Len(q) |->
                      IF Concurrent(arg) /\ entry = "stream" /\ ~loopok
                      THEN [st |-> "done", res |-> "exc"] ELSE NoTask]]
           /\ ssem' = [ssem EXCEPT ![r] = Permits(arg)]
    /\ spos' = [spos EXCEPT ![r] = 1]
    /\ sproc' = [sproc EXCEPT ![r] = 0]
    /\ sorder' = [sorder EXCEPT ![r] = <<>>]
    /\ sout' = [sout EXCEPT ![r] = <<>>]
    /\ swrote' = [swrote EXCEPT ![r] = {}]
    /\ snonnull' = [snonnull EXCEPT ![r] = {i \in 1..Len(db) : db[i].summary # None}]
    /\ ev' = NoEv("sum_start")
    /\ UNCHANGED <<kind, db, now, fetchVars>>

\* what handling one row's result does to the table and the run; remote is the
\* text the remote call gave (None when it failed)
HandleRow(r, id, remote, dbok) ==
    LET text == TextFor(db[id], remote)
        entry == sarg[r].entry
    IN  IF ~OptTruthy(text)
        THEN /\ ev' = NoEv("sum_skip")
             /\ UNCHANGED <<db, sproc, sout, swrote>>
        ELSE IF dbok
        THEN /\ db' = SummaryWritten(db, id, text)
             /\ sproc' = [sproc EXCEPT ![r] = @ + 1]
             /\ sout' = [sout EXCEPT ![r] = Append(@, <<id, "ok">>)]
             /\ swrote' = [swrote EXCEPT ![r] = @ \cup {id}]
             /\ ev' = NoEv("sum_write")
        ELSE \* session.commit() raises
             /\ sout' = [sout EXCEPT ![r] =
                    IF entry = "pending" THEN @ ELSE Append(@, <<id, "error">>)]
             /\ ev' = NoEv("sum_error")
             /\ UNCHANGED <<db, sproc, swrote>>

\* one turn of the row loop of a sequential run: the remote call, the local
\* fallback, the commit
SeqStep(r, outcome, dbok) ==
    /\ spc[r] = "seq"
    /\ outcome \in (IF sarg[r].entry = "stream_async" THEN AsyncOutcomes ELSE SyncOutcomes)
    /\ LET entry == sarg[r].entry
           id == squeue[r][spos[r]]
           last == spos[r] = Len(squeue[r])
       IN  IF entry \in {"papers", "news"} /\ sproc[r] >= sarg[r].limit
           THEN \* if processed >= limit: break
                /\ spc' = [spc EXCEPT ![r] = "done"]
                /\ ev' = NoEv("sum_break")
                /\ UNCHANGED <<db, spos, sproc, sout, swrote>>
           ELSE /\ HandleRow(r, id,
                        IF entry = "stream_async" THEN summarize_with_llm_async(outcome)
                        ELSE summarize_with_llm_sync(outcome), dbok)
                /\ spos' = [spos EXCEPT ![r] = @ + 1]
                /\ spc' = [spc EXCEPT ![r] =
                       IF entry = "pending" /\ ev'.op = "sum_error" THEN "crashed"
                       ELSE IF last THEN "done" ELSE "seq"]
    /\ UNCHANGED <<kind, now, fetchVars, sarg, squeue, stask, ssem, sorder, snonnull>>

\* async with sem: a task enters
Acquire(r, k) ==
    /\ spc[r] = "batch"
    /\ k \in 1..Len(squeue[r])
    /\ stask[r][k].st = "wait"
    /\ ssem[r] > 0
    /\ ssem' = [ssem EXCEPT ![r] = @ - 1]
    /\ stask' = [stask EXCEPT ![r][k].st = "run"]
    /\ ev' = NoEv("task_start")
    /\ UNCHANGED <<kind, db, now, fetchVars, spc, sarg, squeue, spos, sproc, sorder, sout,
                   swrote, snonnull>>

\* the state of a run after a task ended: gather returns once all have
AfterTask(entry, tasks) ==
    IF entry = "stream" /\ \A j \in 1..Len(tasks) : tasks[j].st = "done"
    THEN "drain" ELSE "batch"

Released_leak(n, outcome) == IF outcome = "text" THEN n + 1 ELSE n

\* the permits after a task left "async with sem", however its call ended
Released(n, outcome) == n + 1

\* the remote call of a task ends and the task leaves the semaphore
Release(r, k, outcome) ==
    /\ ssem' = [ssem EXCEPT ![r] = Released(@, outcome)]
    /\ stask' = [stask EXCEPT ![r][k] = [st |-> "done", res |-> outcome]]
    /\ sorder' = [sorder EXCEPT ![r] = Append(@, k)]

Finish(r, k, outcome) ==
    /\ spc[r] = "batch"
    /\ k \in 1..Len(squeue[r])
    /\ stask[r][k].st = "run"
    /\ outcome \in AsyncOutcomes
    /\ Release(r, k, outcome)
    /\ spc' = [spc EXCEPT ![r] = AfterTask(sarg[r].entry, stask'[r])]
    /\ ev' = NoEv("task_end")
    /\ UNCHANGED <<kind, db, now, fetchVars, sarg, squeue, spos, sproc, sout, swrote,
                   snonnull>>

\* the position the result loop handles next: gather gives the results in the
\* order of the rows, as_completed in the order the tasks ended; 0 when the
\* loop has to wait
NextResult(r) ==
    IF sarg[r].entry = "stream"
    THEN IF spc[r] = "drain" THEN spos[r] ELSE 0
    ELSE IF spc[r] = "batch" /\ spos[r] <= Len(sorder[r]) THEN sorder[r][spos[r]] ELSE 0

\* one turn of the result loop of a concurrent run
Drain(r, dbok) ==
    /\ spc[r] \in {"batch", "drain"}
    /\ NextResult(r) # 0
    /\ LET k == NextResult(r)
           res == stask[r][k].res
       IN  HandleRow(r, squeue[r][k],
                     IF res = "exc" THEN None ELSE summarize_with_llm_async(res), dbok)
    /\ spos' = [spos EXCEPT ![r] = @ + 1]
    /\ spc' = [spc EXCEPT ![r] = IF spos[r] = Len(squeue[r]) THEN "done" ELSE @]
    /\ UNCHANGED <<kind, now, fetchVars, sarg, squeue, stask, ssem, sorder, snonnull>>

\* the run returns
EndSum(r) ==
    /\ spc[r] \in {"done", "crashed"}
    /\ spc' = [spc EXCEPT ![r] = "idle"]
    /\ sarg' = [sarg EXCEPT ![r] = NoSumArg]
    /\ squeue' = [squeue EXCEPT ![r] = <<>>]
    /\ spos' = [spos EXCEPT ![r] = 1]
    /\ sproc' = [sproc EXCEPT ![r] = 0]
    /\ stask' = [stask EXCEPT ![r] = <<>>]
    /\ ssem' = [ssem EXCEPT ![r] = 0]
    /\ sorder' = [sorder EXCEPT ![r] = <<>>]
    /\ sout' = [sout EXCEPT ![r] = <<>>]
    /\ swrote' = [swrote EXCEPT ![r] = {}]
    /\ snonnull' = [snonnull EXCEPT ![r] = {}]
    /\ ev' = NoEv("sum_end")
    /\ UNCHANGED <<kind, db, now, fetchVars>>

SumIdle ==
    /\ spc = [r \in Runs |-> "idle"]
    /\ sarg = [r \in Runs |-> NoSumArg]
    /\ squeue = [r \in Runs |-> <<>>]
    /\ spos = [r \in Runs |-> 1]
    /\ sproc = [r \in Runs |-> 0]
    /\ stask = [r \in Runs |-> <<>>]
    /\ ssem = [r \in Runs |-> 0]
    /\ sorder = [r \in Runs |-> <<>>]
    /\ sout = [r \in Runs |-> <<>>]
    /\ swrote = [r \in Runs |-> {}]
    /\ snonnull = [r \in Runs |-> {}]

NoReqArg == [endpoint |-> "", admin_token |-> "", token |-> None, include_hn |-> FALSE,
             limit |-> 0, concurrency |-> 0]

\* no refresh request, no source list
\* the threads that call get_engine: 0 runs on_startup, the others run request
\* handlers and scheduler jobs
EngineThreads == 0..3
MaxCalls == 2       \* a thread calls get_engine at most this many times

\* on_startup has run: create_db_and_tables() has created the engine
EngineStarted ==
    /\ engine = 1
    /\ created = 1
    /\ epc = [t \in EngineThreads |-> "idle"]
    /\ eret = [t \in EngineThreads |-> IF t = 0 THEN 1 ELSE 0]
    /\ ecalls = [t \in EngineThreads |-> IF t = 0 THEN 1 ELSE 0]

NoServed == [a \in {"news", "hn"} |-> NoEntry]

ConvIdle ==
    /\ served = NoServed
    /\ rounds = [a \in {"news", "hn"} |-> 0]

ExtIdle ==
    /\ ConvIdle
    /\ cls = ""
    /\ fsrcs = <<>>
    /\ flog = <<>>
    /\ rpc = "idle"
    /\ rarg = NoReqArg
    /\ rout = <<>>
    /\ EngineStarted

FetchIdle ==
    /\ fpc = [p \in Procs |-> "idle"]
    /\ farg = [p \in Procs |-> NoArg]
    /\ frec = [p \in Procs |-> NoEntry]
    /\ fexist = [p \in Procs |-> None]
    /\ fchanged = [p \in Procs |-> <<>>]
    /\ fseen = [p \in Procs |-> {}]
    /\ lastIn = <<>>

(*************************** Spec: one fetch run at a time *****************)
\* every field of an entry varies; no cutoff, no relevance filter
UpsertEntries ==
    {e \in FeedEntries : e.url = "A" /\ e.title \in {<<>>, TAi}
                            /\ e.description \in {None, Some(D1), Some(D2)}} \cup
    {e \in FeedEntries : e.url = "" /\ e.title = TAi /\ e.description = None
                            /\ e.published_at = None}

Init ==
    /\ kind \in Kinds
    /\ db = <<>>
    /\ now = MaxClock - 1
    /\ ev = NoEv("init")
    /\ FetchIdle
    /\ SumIdle
    /\ ExtIdle

\* Spec: fetch runs one after another over one url, no cutoff, no filter
Next ==
    \/ \E a \in AllAdapters : StartFetch(1, a, Some(0), None, FALSE) /\ UNCHANGED extVars
    \/ \E e \in UpsertEntries, dbok \in BOOLEAN :
          EntryStep(1, e, None, dbok) /\ UNCHANGED extVars
    \/ EndFetch(1) /\ UNCHANGED extVars
    \/ FetchRaised(1) /\ UNCHANGED extVars
    \/ Tick /\ UNCHANGED extVars

Spec == Init /\ [][Next]_vars

(*************************** fetch runs under a cutoff *********************)
CutoffEntries ==
    {e \in FeedEntries \cup HnHits :
        /\ e.url \in {"", "A"} /\ e.title = TAi /\ e.description = None
        /\ e.points \in {None, Some(0)}}

NextCutoff ==
    \/ \E a \in AllAdapters, mad \in MaxAges :
          StartFetch(1, a, mad, None, FALSE) /\ UNCHANGED extVars
    \/ \E e \in CutoffEntries : EntryStep(1, e, None, TRUE) /\ UNCHANGED extVars
    \/ EndFetch(1) /\ UNCHANGED extVars
    \/ Tick /\ UNCHANGED extVars

SpecCutoff == Init /\ [][NextCutoff]_vars

(*************************** fetch runs under the relevance filter *********)
FilterEntries ==
    {e \in [title : {TAi, TOther}, url : {"", "A"}, description : {None, Some(DAi)},
            published_at : {None, Some(MaxClock - 1)}, points : {None, Some(0)}] :
        /\ e.points # None => (e.description = None /\ e.published_at # None)
        /\ (e.url = "" \/ e.published_at = None) => (e.title = TOther /\ e.description = None)}

\* one entry of a feed; reply is what the remote classifier gives when asked
ClassifiedEntryStep(p, e, reply) ==
    /\ EntryStep(p, e, is_ai_related_llm_sync(reply), TRUE)
    /\ cls' = reply
    /\ UNCHANGED <<fsrcs, flog, reqVars, engVars, convVars>>

NextFilter ==
    \/ \E a \in AllAdapters, mad \in {Some(0), Some(1)}, flt \in BOOLEAN :
          StartFetch(1, a, mad, None, flt) /\ UNCHANGED extVars
    \/ \E e \in FilterEntries, reply \in LlmReplies : ClassifiedEntryStep(1, e, reply)
    \/ EndFetch(1) /\ UNCHANGED extVars

SpecFilter == Init /\ [][NextFilter]_vars

(*************************** re-ingesting one url **************************)
\* SpecUpdate: fetch runs one after another over one url whose description
\* and date vary from run to run; every commit succeeds
UpdateEntries ==
    {e \in FeedEntries \cup HnHits :
        /\ e.url = "A" /\ e.title = TAi
        /\ e.description \in {None, Some(D1), Some(DLong1), Some(DLong2)}
        /\ e.published_at \in {None, Some(MaxClock - 1)}
        /\ e.points \in {None, Some(0)}}

NextUpdate ==
    \/ \E a \in AllAdapters : StartFetch(1, a, Some(0), Some(0), FALSE) /\ UNCHANGED extVars
    \/ \E e \in UpdateEntries : EntryStep(1, e, None, TRUE) /\ UNCHANGED extVars
    \/ EndFetch(1) /\ UNCHANGED extVars
    \/ Tick /\ UNCHANGED extVars

SpecUpdate == Init /\ [][NextUpdate]_vars

(*************************** a fetch run over its sources ******************)
MaxEntries == 2     \* a source gives at most this many entries

SourceLists == {<<"s1">>, <<"s1", "s2">>, <<"s2", "s1">>}

\* the sources of a run, in the order it takes them: the feeds the caller
\* gave; for Hacker News the query terms, then the front page
Sources(a, srcs) == IF a = "hn" THEN Append(srcs, "front_page") ELSE srcs

AfterTransportFailure_raise(a) == "crashed"

\* where a run is after the request of a source failed or its body did not
\* parse: the exception is caught and the source has no entries
AfterTransportFailure(a) == "run"

SourceOps == {"source", "source_failed"}

\* fetch_*(sources=srcs, ...) is called
StartFetchOver(a, srcs, mad, mp, flt) ==
    /\ StartFetch(1, a, mad, mp, flt)
    /\ fsrcs' = Sources(a, srcs)
    /\ flog' = <<>>
    /\ cls' = cls

\* the run takes its next source and requests it: ok when the request and the
\* parse of its body went through
ParseFeed(ok) ==
    /\ fpc[1] = "run"
    /\ Len(flog) < Len(fsrcs)
    /\ flog' = Append(flog, [src |-> fsrcs[Len(flog) + 1],
                             st |-> IF ok THEN "ok" ELSE "failed", n |-> 0])
    /\ fpc' = [fpc EXCEPT ![1] = IF ok THEN @ ELSE AfterTransportFailure(farg[1].adapter)]
    /\ ev' = Ev(IF ok THEN "source" ELSE "source_failed", FALSE, NoEntry)
    /\ UNCHANGED <<kind, db, now, farg, frec, fexist, fchanged, fseen, lastIn, sumVars,
                   cls, fsrcs>>

\* one entry of the source the run is at; an exception caught around the
\* source ends its entries
SourceEntryStep(e, llm, dbok) ==
    /\ flog # <<>>
    /\ flog[Len(flog)].st = "ok"
    /\ flog[Len(flog)].n < MaxEntries
    /\ EntryStep(1, e, llm, dbok)
    /\ flog' = [flog EXCEPT ![Len(flog)] =
            [@ EXCEPT !.n = @ + 1, !.st = IF ev'.op = "update_failed" THEN "cut" ELSE @]]
    /\ UNCHANGED <<cls, fsrcs>>

\* the loop over the sources ended: return new_or_updated
ReturnFetch ==
    /\ Len(flog) = Len(fsrcs)
    /\ EndFetch(1)
    /\ UNCHANGED srcVars

SourceEntries ==
    {e \in FeedEntries : e.url \in {"A", "B"} /\ e.title = TAi /\ e.description = None
                            /\ e.published_at = None}

NextSources ==
    \/ \E a \in AllAdapters, srcs \in SourceLists :
          StartFetchOver(a, srcs, Some(0), None, FALSE) /\ UNCHANGED <<reqVars, engVars, convVars>>
    \/ \E ok \in BOOLEAN : ParseFeed(ok) /\ UNCHANGED <<reqVars, engVars, convVars>>
    \/ \E e \in SourceEntries : SourceEntryStep(e, None, TRUE) /\ UNCHANGED <<reqVars, engVars, convVars>>
    \/ ReturnFetch /\ UNCHANGED <<reqVars, engVars, convVars>>

SpecSources == Init /\ [][NextSources]_vars

(*************************** two fetch runs at once ************************)
RaceEntries ==
    {e \in FeedEntries : /\ e.title = TAi /\ e.published_at = None
                         /\ \/ e.url = "A" /\ e.description \in {None, Some(D1)}
                            \/ e.url = "B" /\ e.description = None}

NextRace ==
    \/ \E p \in Procs, a \in AllAdapters :
          StartFetch(p, a, Some(0), None, FALSE) /\ UNCHANGED extVars
    \/ \E p \in Procs, e \in RaceEntries : Lookup(p, e, None) /\ UNCHANGED extVars
    \/ \E p \in Procs : CommitInsert(p, TRUE) /\ UNCHANGED extVars
    \/ \E p \in Procs : CommitUpdate(p, TRUE) /\ UNCHANGED extVars
    \/ \E p \in Procs : EndFetch(p) /\ UNCHANGED extVars

SpecRace == Init /\ [][NextRace]_vars

(*************************** a fetch run and summarization runs ************)
\* the entry an earlier fetch run stored, and the entries the feeds hold now:
\* the same url with another description or with a date, and a second url
PipeSeed == [title |-> TAi, url |-> "A", description |-> Some(D1), published_at |-> None,
             points |-> None]
PipeSeedHn == [PipeSeed EXCEPT !.description = None]
PipeEntries ==
    {[PipeSeed EXCEPT !.description = Some(D2)],
     [PipeSeedHn EXCEPT !.published_at = Some(MaxClock - 1)],
     [PipeSeedHn EXCEPT !.url = "B"]}

PipeLimit == 2

InitPipe ==
    /\ kind \in Kinds
    /\ \E a \in AdaptersOf(kind) :
          db = <<NewRow(a, IF a = "hn" THEN PipeSeedHn ELSE PipeSeed, 1, MaxClock - 1)>>
    /\ now = MaxClock - 1
    /\ ev = NoEv("init")
    /\ FetchIdle
    /\ SumIdle
    /\ ExtIdle

NextPipe ==
    \/ \E a \in AllAdapters : StartFetch(1, a, Some(0), None, FALSE) /\ UNCHANGED extVars
    \/ \E e \in PipeEntries : Lookup(1, e, None) /\ UNCHANGED extVars
    \/ CommitInsert(1, TRUE) /\ UNCHANGED extVars
    \/ CommitUpdate(1, TRUE) /\ UNCHANGED extVars
    \/ EndFetch(1) /\ UNCHANGED extVars
    \/ \E entry \in SumEntryPoints \ {"stream_async"} :
          StartSum(1, entry, PipeLimit, 1, TRUE) /\ UNCHANGED extVars
    \/ \E outcome \in SyncOutcomes : SeqStep(1, outcome, TRUE) /\ UNCHANGED extVars
    \/ EndSum(1) /\ UNCHANGED extVars

SpecPipe == InitPipe /\ [][NextPipe]_vars

(*************************** one summarization run *************************)
SumRows == 3        \* the table a summarization run starts from has this many rows

DText == <<Seg("x", 100), Seg("end", 1), Seg("ws", 2), Seg("url", 20), Seg("ws", 1),
           Seg("y", 100), Seg("end", 1), Seg("ws", 1), Seg("z", 30)>>

\* a description of blanks and a url, and a title longer than TitleLimit
DUrl == <<Seg("ws", 1), Seg("url", 20), Seg("ws", 2)>>
TLong == <<Seg("t", 130)>>

SumTemplates == {"full", "notext", "summarized"}

\* a stored row: with a title and a description, with neither, or summarized;
\* with a description of a url only, with a title only, with a long title only
SumRow(id, tpl) ==
    [id |-> id,
     title |-> IF tpl \in {"notext", "urlonly"} THEN <<>>
               ELSE IF tpl = "longtitle" THEN TLong ELSE TAi,
     url |-> ToString(id),
     source |-> "s",
     published_at |-> IF tpl = "notext" THEN None ELSE Some(MaxClock - 1),
     description |-> IF tpl \in {"notext", "titleonly", "longtitle"} THEN None
                     ELSE IF tpl = "urlonly" THEN Some(DUrl) ELSE Some(DText),
     summary |-> IF tpl = "summarized" THEN Some(LlmText) ELSE None,
     content_hash |-> <<>>, created_at |-> MaxClock - 1, updated_at |-> MaxClock - 1]

SumTablesOf(n) == {[i \in 1..n |-> SumRow(i, f[i])] : f \in [1..n -> SumTemplates]}
SumTables == SumTablesOf(SumRows)

SumLimits == {1, SumRows}
Concurrencies == {1, 2}

InitSum ==
    /\ kind \in Kinds
    /\ db \in SumTables
    /\ now = MaxClock - 1
    /\ ev = NoEv("init")
    /\ FetchIdle
    /\ SumIdle
    /\ ExtIdle

NextSum ==
    \/ /\ ev.op = "init"
       /\ \E entry \in SumEntryPoints, limit \in SumLimits, conc \in Concurrencies,
             loopok \in BOOLEAN : StartSum(1, entry, limit, conc, loopok)
       /\ UNCHANGED extVars
    \/ \E outcome \in AsyncOutcomes, dbok \in BOOLEAN :
          SeqStep(1, outcome, dbok) /\ UNCHANGED extVars
    \/ \E k \in 1..SumRows : Acquire(1, k) /\ UNCHANGED extVars
    \/ \E k \in 1..SumRows, outcome \in AsyncOutcomes :
          Finish(1, k, outcome) /\ UNCHANGED extVars
    \/ \E dbok \in BOOLEAN : Drain(1, dbok) /\ UNCHANGED extVars
    \/ EndSum(1) /\ UNCHANGED extVars

SpecSum == InitSum /\ [][NextSum]_vars

(*************************** a run whose remote calls all fail *************)
FallbackRows == 2
FallbackTemplates == {"full", "urlonly", "titleonly", "longtitle", "notext"}
FallbackTables ==
    {[i \in 1..FallbackRows |-> SumRow(i, f[i])] : f \in [1..FallbackRows -> FallbackTemplates]}
FallbackConcurrencies == {2, 3}

InitFallback ==
    /\ kind \in Kinds
    /\ db \in FallbackTables
    /\ now = MaxClock - 1
    /\ ev = NoEv("init")
    /\ FetchIdle
    /\ SumIdle
    /\ ExtIdle

\* SpecFallback: one run with concurrency > 1; every remote call gives nothing
\* or raises; every commit succeeds
NextFallback ==
    \/ /\ ev.op = "init"
       /\ \E entry \in SumEntryPoints \ {"pending"}, limit \in {1, FallbackRows},
             conc \in FallbackConcurrencies, loopok \in BOOLEAN :
             StartSum(1, entry, limit, conc, loopok)
       /\ UNCHANGED extVars
    \/ SeqStep(1, "none", TRUE) /\ UNCHANGED extVars
    \/ \E k \in 1..FallbackRows : Acquire(1, k) /\ UNCHANGED extVars
    \/ \E k \in 1..FallbackRows, outcome \in {"none", "exc"} :
          Finish(1, k, outcome) /\ UNCHANGED extVars
    \/ Drain(1, TRUE) /\ UNCHANGED extVars

SpecFallback == InitFallback /\ [][NextFallback]_vars

(*************************** the order of a sequential run *****************)
QueueRows == 3
\* a stored row with a title only: its dates vary, it may have a summary
QueueRow(id, pub, made, done) ==
    [id |-> id, title |-> TAi, url |-> ToString(id), source |-> "s",
     published_at |-> pub, description |-> None,
     summary |-> IF done THEN Some(LlmText) ELSE None,
     content_hash |-> <<>>, created_at |-> made, updated_at |-> made]

QueueTables ==
    {[i \in 1..QueueRows |-> QueueRow(i, pub[i], made[i], i = QueueRows /\ done)] :
        pub \in [1..QueueRows -> {None, Some(MaxClock - 2), Some(MaxClock - 1)}],
        made \in [1..QueueRows -> {MaxClock - 2, MaxClock - 1}],
        done \in BOOLEAN}

InitQueue ==
    /\ kind \in Kinds
    /\ db \in QueueTables
    /\ now = MaxClock - 1
    /\ ev = NoEv("init")
    /\ FetchIdle
    /\ SumIdle
    /\ ExtIdle

\* SpecQueue: one run with concurrency 1 through any entry point
NextQueue ==
    \/ /\ ev.op = "init"
       /\ \E entry \in SumEntryPoints, limit \in {2, QueueRows} :
             StartSum(1, entry, limit, 1, TRUE)
       /\ UNCHANGED extVars
    \/ \E dbok \in BOOLEAN : SeqStep(1, "text", dbok) /\ UNCHANGED extVars

SpecQueue == InitQueue /\ [][NextQueue]_vars

(*************************** two summarization runs at once ****************)
OverlapRows == 2    \* the table two runs at once start from has this many rows
OverlapLimits == {1, OverlapRows}

InitOverlap ==
    /\ kind \in Kinds
    /\ db \in SumTablesOf(OverlapRows)
    /\ now = MaxClock - 1
    /\ ev = NoEv("init")
    /\ FetchIdle
    /\ SumIdle
    /\ ExtIdle

NextOverlap ==
    \/ \E r \in Runs, entry \in SumEntryPoints \ {"stream_async"}, limit \in OverlapLimits :
          StartSum(r, entry, limit, 1, TRUE) /\ UNCHANGED extVars
    \/ \E r \in Runs, outcome \in SyncOutcomes :
          SeqStep(r, outcome, TRUE) /\ UNCHANGED extVars
    \/ \E r \in Runs : EndSum(r) /\ UNCHANGED extVars

SpecOverlap == InitOverlap /\ [][NextOverlap]_vars

\* the event loop runs every ready task, a remote call ends (it has a timeout),
\* and the caller keeps reading the generator
SpecSumFair == SpecSum /\ WF_vars(NextSum)

(*************************** the engine of the process *********************)
Serving_early == TRUE

\* request handlers and scheduler jobs run: the server takes requests once
\* on_startup has returned, and on_startup starts the scheduler after
\* create_db_and_tables()
Serving == ecalls[0] = 1 /\ epc[0] = "idle"

\* thread t calls get_engine
CallGetEngine(t) ==
    /\ epc[t] = "idle"
    /\ ecalls[t] < (IF t = 0 THEN 1 ELSE MaxCalls)
    /\ t # 0 => Serving
    /\ epc' = [epc EXCEPT ![t] = "called"]
    /\ UNCHANGED <<engine, created, eret, ecalls>>

\* if _engine is None
TestEngine(t) ==
    /\ epc[t] = "called"
    /\ epc' = [epc EXCEPT ![t] = IF engine = 0 THEN "create" ELSE "return"]
    /\ UNCHANGED <<engine, created, eret, ecalls>>

\* _engine = create_engine(...)
CreateEngine(t) ==
    /\ epc[t] = "create"
    /\ created' = created + 1
    /\ engine' = created + 1
    /\ epc' = [epc EXCEPT ![t] = "return"]
    /\ UNCHANGED <<eret, ecalls>>

\* return _engine
ReturnEngine(t) ==
    /\ epc[t] = "return"
    /\ eret' = [eret EXCEPT ![t] = engine]
    /\ ecalls' = [ecalls EXCEPT ![t] = @ + 1]
    /\ epc' = [epc EXCEPT ![t] = "idle"]
    /\ UNCHANGED <<engine, created>>

\* the module is imported: _engine = None
InitEngine ==
    /\ kind \in Kinds
    /\ db = <<>>
    /\ now = MaxClock - 1
    /\ ev = NoEv("init")
    /\ FetchIdle
    /\ SumIdle
    /\ ConvIdle
    /\ cls = "" /\ fsrcs = <<>> /\ flog = <<>>
    /\ rpc = "idle" /\ rarg = NoReqArg /\ rout = <<>>
    /\ engine = 0
    /\ created = 0
    /\ epc = [t \in EngineThreads |-> "idle"]
    /\ eret = [t \in EngineThreads |-> 0]
    /\ ecalls = [t \in EngineThreads |-> 0]

NextEngine ==
    \/ \E t \in EngineThreads : CallGetEngine(t) /\ UNCHANGED <<ingestVars, sumVars, srcVars, reqVars, convVars>>
    \/ \E t \in EngineThreads : TestEngine(t) /\ UNCHANGED <<ingestVars, sumVars, srcVars, reqVars, convVars>>
    \/ \E t \in EngineThreads : CreateEngine(t) /\ UNCHANGED <<ingestVars, sumVars, srcVars, reqVars, convVars>>
    \/ \E t \in EngineThreads : ReturnEngine(t) /\ UNCHANGED <<ingestVars, sumVars, srcVars, reqVars, convVars>>

SpecEngine == InitEngine /\ [][NextEngine]_vars

(*************************** news runs over unchanged sources **************)
\* SpecConverge: fetch_news and fetch_hn run one after another, in any order,
\* over sources whose content stays the same; every commit succeeds
MaxRounds == 2      \* each of the two adapters runs at most this many times

\* what the sources hold: the feed has one entry, with or without a summary
\* and a date; Hacker News has one story, of the same url or of another
ServedContents ==
    {c \in [{"news", "hn"} -> FeedEntries \cup HnHits] :
        /\ c["news"] \in FeedEntries /\ c["hn"] \in HnHits
        /\ c["news"].title = TAi /\ c["hn"].title = TAi
        /\ c["news"].url = "A" /\ c["hn"].url \in {"A", "B"}
        /\ c["news"].description \in {None, Some(D1)}
        /\ c["news"].published_at \in {None, Some(MaxClock - 1)}
        /\ c["hn"].points = Some(hn_min_points)}

InitConverge ==
    /\ kind = "News"
    /\ db = <<>>
    /\ now = MaxClock - 1
    /\ ev = NoEv("init")
    /\ FetchIdle
    /\ SumIdle
    /\ cls = "" /\ fsrcs = <<>> /\ flog = <<>>
    /\ rpc = "idle" /\ rarg = NoReqArg /\ rout = <<>>
    /\ EngineStarted
    /\ served \in ServedContents
    /\ rounds = [a \in {"news", "hn"} |-> 0]

\* changed = fetch_news(max_age_days=max_age_days), hn_changed = fetch_hn(...)
ConvStart(a) ==
    /\ a \in {"news", "hn"}
    /\ rounds[a] < MaxRounds
    /\ StartFetch(1, a, None, None, FALSE)
    /\ UNCHANGED extVars

\* the run handles the one entry its source holds
ConvEntry ==
    /\ fpc[1] = "run"
    /\ ev.op = "start"
    /\ EntryStep(1, served[farg[1].adapter], None, TRUE)
    /\ UNCHANGED extVars

\* the run returns new_or_updated
ConvEnd ==
    /\ fpc[1] = "run"
    /\ ev.op # "start"
    /\ EndFetch(1)
    /\ rounds' = [rounds EXCEPT ![farg[1].adapter] = @ + 1]
    /\ UNCHANGED <<srcVars, reqVars, engVars, served>>

ConvTick ==
    /\ fpc[1] = "idle"
    /\ Tick
    /\ UNCHANGED extVars

NextConverge ==
    \/ \E a \in {"news", "hn"} : ConvStart(a)
    \/ ConvEntry
    \/ ConvEnd
    \/ ConvTick

SpecConverge == InitConverge /\ [][NextConverge]_vars

(*************************** a refresh request *****************************)
Endpoints == {"refresh", "refresh_stream", "news_stream", "papers_stream"}
EndpointsOf(k) ==
    CASE k = "Article" -> {"refresh", "refresh_stream"}
      [] k = "News" -> {"news_stream"}
      [] k = "Paper" -> {"papers_stream"}

AdminTokens == {"", "secret"}               \* settings.admin_token
Tokens == {None, Some("secret"), Some("wrong")}     \* the token of the request

Streaming(ep) == ep # "refresh"

Authorized_present(ep, admin, tok) == tok # None

\* the request passes the token check of its handler
Authorized(ep, admin, tok) ==
    IF ep \in {"refresh", "refresh_stream"}
    THEN ~(admin = "" \/ tok # Some(admin))
    ELSE ~(admin # "" /\ tok # Some(admin))

FetchAdapterOf(ep) ==
    CASE ep \in {"refresh", "refresh_stream"} -> "rss"
      [] ep = "news_stream" -> "news"
      [] ep = "papers_stream" -> "arxiv_stream"

SumEntryOf(ep) ==
    CASE ep = "refresh" -> "pending"
      [] ep = "refresh_stream" -> "stream"
      [] ep = "news_stream" -> "news"
      [] ep = "papers_stream" -> "papers"

\* a line "data: ...": what it reports and the number in it
Line(l, n) == <<l, n>>

\* the lines gen() yields when arg holds a streaming request; none otherwise
Yield(arg, lines) == IF Streaming(arg.endpoint) THEN rout \o lines ELSE rout

\* the number in line l of the response so far, 0 when there is none
LineValue(l) ==
    IF \E i \in 1..Len(rout) : rout[i][1] = l
    THEN rout[CHOOSE i \in 1..Len(rout) : rout[i][1] = l][2] ELSE 0

Reported_total(changed) == Len(db)

\* len(changed): what a handler reports of the list a fetch run returned
Reported(changed) == Len(changed)

\* where gen() goes after a fetch: if include_hn and settings.hn_enable
AfterFetch(arg, pc) ==
    IF pc = "fetch" /\ arg.include_hn /\ arg.endpoint # "papers_stream"
    THEN "hn" ELSE "summarize"

AfterFetchRaised_fail(arg, pc) == "failed"

\* where the request goes when the fetch call raised: gen() catches it, the
\* synchronous handler does not
AfterFetchRaised(arg, pc) ==
    IF arg.endpoint \in {"refresh_stream", "news_stream"} THEN AfterFetch(arg, pc) ELSE "failed"

\* the handler is called; after a finished request, one more that is refused
Request(ep, admin, tok, hn, limit, conc) ==
    /\ rpc \in {"idle", "done"}
    /\ rpc = "done" => ~Authorized(ep, admin, tok)
    /\ ep \in EndpointsOf(kind)
    /\ rarg' = [endpoint |-> ep, admin_token |-> admin, token |-> tok, include_hn |-> hn,
                limit |-> limit, concurrency |-> conc]
    /\ rpc' = IF Authorized(ep, admin, tok) THEN "start" ELSE "unauthorized"
    /\ rout' = <<>>
    /\ ev' = NoEv(IF Authorized(ep, admin, tok) THEN "req" ELSE "req_401")
    /\ UNCHANGED <<kind, db, now, fetchVars, sumVars, srcVars>>

\* gen() starts, or goes on to Hacker News, and calls the fetch adapter
GenFetch(srcs, mad, flt) ==
    /\ rpc \in {"start", "hn"}
    /\ rpc = "hn" => kind = "News"
    /\ StartFetchOver(IF rpc = "hn" THEN "hn" ELSE FetchAdapterOf(rarg.endpoint),
                      srcs, mad, None, flt)
    /\ rout' = Yield(rarg, IF rpc = "hn" THEN <<Line("fetching_hn", 0)>>
                           ELSE <<Line("start", 0), Line("fetching", 0)>>)
    /\ rpc' = IF rpc = "hn" THEN "fetch_hn" ELSE "fetch"
    /\ rarg' = rarg

\* fetch_hn() of a handler of the article table: it upserts into the news table
GenHnElsewhere(n) ==
    /\ rpc = "hn"
    /\ kind # "News"
    /\ rout' = IF Streaming(rarg.endpoint)
               THEN rout \o <<Line("fetching_hn", 0), Line("fetched_hn", n)>>
               ELSE Append(rout, Line("hn_updated", n))
    /\ rpc' = "summarize"
    /\ ev' = NoEv("req_hn")
    /\ UNCHANGED <<kind, db, now, fetchVars, sumVars, srcVars, rarg>>

\* the adapter takes its next source; the streaming arXiv adapter reports it
GenSource(ok) ==
    /\ rpc \in {"fetch", "fetch_hn"}
    /\ ParseFeed(ok)
    /\ rout' = IF rarg.endpoint = "papers_stream"
               THEN rout \o <<Line("feed", 0), Line(IF ok THEN "feed" ELSE "fetch_error", 0)>>
               ELSE rout
    /\ UNCHANGED <<rpc, rarg>>

\* one entry; the streaming arXiv adapter reports an upsert and an error
GenEntry(e, dbok) ==
    /\ rpc \in {"fetch", "fetch_hn"}
    /\ SourceEntryStep(e, None, dbok)
    /\ rout' = IF rarg.endpoint # "papers_stream" THEN rout
               ELSE IF ev'.op \in {"insert", "update"}
                    THEN Append(rout, Line("item", Len(fchanged'[1])))
               ELSE IF ev'.op \in {"rollback", "update_failed"}
                    THEN Append(rout, Line("fetch_error", 0))
               ELSE rout
    /\ UNCHANGED <<rpc, rarg>>

\* the fetch call returns
GenFetched ==
    /\ rpc \in {"fetch", "fetch_hn"}
    /\ ReturnFetch
    /\ rout' = IF Streaming(rarg.endpoint)
               THEN Append(rout, Line(IF rpc = "fetch" THEN "fetched" ELSE "fetched_hn",
                                      Reported(fchanged[1])))
               ELSE Append(rout, Line("rss_updated", Reported(fchanged[1])))
    /\ rpc' = AfterFetch(rarg, rpc)
    /\ rarg' = rarg

\* the fetch call raises
GenFetchRaised ==
    /\ rpc \in {"fetch", "fetch_hn"}
    /\ FetchRaised(1)
    /\ rout' = Yield(rarg, <<Line("fetch_error", 0)>>)
    /\ rpc' = AfterFetchRaised(rarg, rpc)
    /\ UNCHANGED <<srcVars, rarg>>

\* gen() calls the summarization entry point of its table
GenSummarize(loopok) ==
    /\ rpc = "summarize"
    /\ StartSum(1, SumEntryOf(rarg.endpoint), rarg.limit, rarg.concurrency, loopok)
    /\ rout' = Yield(rarg, <<Line("summarizing", 0)>>)
    /\ rpc' = "rows"
    /\ UNCHANGED <<srcVars, rarg>>

RowLines_okonly(arg, out, out1) ==
    IF Len(out1) > Len(out) /\ out1[Len(out1)][2] = "ok"
    THEN Yield(arg, <<Line("summarized", Len(out1))>>)
    ELSE rout

\* the line of gen() for what the run yielded in this step, if anything
RowLines(arg, out, out1) ==
    IF Len(out1) > Len(out)
    THEN Yield(arg, <<Line(IF out1[Len(out1)][2] = "ok" THEN "summarized"
                           ELSE "summarized_error", Len(out1))>>)
    ELSE rout

\* a step of the summarization run
GenRow(outcome, dbok) ==
    /\ rpc = "rows"
    /\ \/ SeqStep(1, outcome, dbok)
       \/ Drain(1, dbok)
       \/ \E k \in 1..Len(squeue[1]) : Acquire(1, k) \/ Finish(1, k, outcome)
    /\ rout' = RowLines(rarg, sout[1], sout'[1])
    /\ UNCHANGED <<srcVars, rpc, rarg>>

\* the run is over: the last lines, or the response of the synchronous handler
GenDone ==
    /\ rpc = "rows"
    /\ EndSum(1)
    /\ rout' = IF Streaming(rarg.endpoint)
               THEN rout \o <<Line("total", Len(sout[1])), Line("done", 0)>>
               ELSE IF spc[1] = "crashed" THEN rout
               ELSE rout \o <<Line("updated", LineValue("rss_updated") + LineValue("hn_updated")),
                              Line("summarized", sproc[1])>>
    /\ rpc' = IF spc[1] = "crashed" THEN "failed" ELSE "done"
    /\ UNCHANGED <<srcVars, rarg>>

RefreshEntries ==
    {e \in FeedEntries : /\ e.published_at = None
                         /\ \/ e.url = "A" /\ e.title = TAi /\ e.description \in {None, Some(D1)}
                            \/ e.url = "B" /\ e.title = <<>> /\ e.description = None}

NextRefresh ==
    \/ /\ \E ep \in Endpoints, admin \in AdminTokens, tok \in Tokens, hn \in BOOLEAN,
             conc \in Concurrencies : Request(ep, admin, tok, hn, PipeLimit, conc)
       /\ UNCHANGED <<engVars, convVars>>
    \/ GenFetch(<<"s1">>, Some(0), FALSE) /\ UNCHANGED <<engVars, convVars>>
    \/ \E n \in 0..1 : GenHnElsewhere(n) /\ UNCHANGED <<engVars, convVars>>
    \/ \E ok \in BOOLEAN : GenSource(ok) /\ UNCHANGED <<engVars, convVars>>
    \/ \E e \in RefreshEntries, dbok \in BOOLEAN : GenEntry(e, dbok) /\ UNCHANGED <<engVars, convVars>>
    \/ GenFetched /\ UNCHANGED <<engVars, convVars>>
    \/ GenFetchRaised /\ UNCHANGED <<engVars, convVars>>
    \/ \E loopok \in BOOLEAN : GenSummarize(loopok) /\ UNCHANGED <<engVars, convVars>>
    \/ \E outcome \in AsyncOutcomes, dbok \in BOOLEAN : GenRow(outcome, dbok) /\ UNCHANGED <<engVars, convVars>>
    \/ GenDone /\ UNCHANGED <<engVars, convVars>>

SpecRefresh == Init /\ [][NextRefresh]_vars

\* a fetch ends (its sources and their entries are finite), a remote call ends
\* (it has a timeout), and the client keeps reading the stream
SpecRefreshFair == SpecRefresh /\ WF_vars(NextRefresh)

(*************************** properties ************************************)
Range(q) == {q[i] : i \in 1..Len(q)}

\* what a step that handled a feed entry did
EntryOps == {"skip_old", "skip_points", "skip_irrelevant", "skip_nourl", "skip_seen",
             "noop", "found", "missing", "insert", "update", "update_stale", "rollback",
             "update_failed"}
UpsertOps == {"insert", "update", "update_stale", "noop"}
FetchOps == EntryOps \cup {"start", "end", "raised"}

\* C1: when an adapter is fed the entry it upserted in the entry step before
\* (in the same run or in its next run), the step writes nothing: the table and
\* so updated_at and every other field stay as they are, the changed set does
\* not grow, and exactly one row holds the url.
C1_IdempotentReingestion ==
    [][(ev'.op \in EntryOps /\ ev'.again) =>
          /\ ev'.op \in {"noop", "skip_seen"}
          /\ db' = db
          /\ fchanged' = fchanged
          /\ Cardinality(RowsWithUrl(db', ev'.e.url)) = 1]_vars

C1_Witness ==
    /\ ev.op = "noop" /\ ev.again
    /\ Len(db) = 1 /\ db[1].url = ev.e.url
    /\ OptTruthy(ev.e.description) /\ ev.e.published_at # None

\* C2: in every reachable state, whatever the interleaving of the lookups and
\* commits of two fetch runs, no two rows of the table hold the same url.
C2_UrlUnique == \A u \in Urls : Cardinality(RowsWithUrl(db, u)) <= 1

\* both runs looked the url up before either inserted; the second commit was
\* rolled back and the run went on
C2_Witness ==
    /\ ev.op = "rollback"
    /\ Cardinality(RowsWithUrl(db, ev.e.url)) = 1
    /\ \A p \in Procs : fpc[p] = "run"

\* C3: a row that had a summary when a summarization run started is not among
\* the rows the run selected and its summary is not written by the run.
C3_NeverRevisited ==
    \A r \in Runs :
        /\ Range(squeue[r]) \cap snonnull[r] = {}
        /\ swrote[r] \cap snonnull[r] = {}

\* a run that ended after writing another row left alone a row summarized from
\* its first description whose description a fetch has changed since
C3_Witness ==
    /\ spc[1] = "done" /\ ev.op = "sum_write"
    /\ swrote[1] # {}
    /\ 1 \in snonnull[1]
    /\ db[1].summary = summarize_extractive(TAi, Some(D1))
    /\ db[1].description = Some(D2)

\* C4: of two summarization runs at once, at most one writes the summary of a
\* row.
C4_SingleWriter == \A id \in 1..Len(db) : ~(id \in swrote[1] /\ id \in swrote[2])

InFlight(r) == {k \in 1..Len(stask[r]) : stask[r][k].st = "run"}

\* C5: in every reachable state of a run with concurrency N > 1, at most N
\* remote calls are in flight.
C5_BoundedConcurrency ==
    \A r \in Runs : spc[r] \in {"batch", "drain"} =>
        Cardinality(InFlight(r)) <= sarg[r].concurrency

C5_Witness ==
    /\ spc[1] = "batch"
    /\ Len(squeue[1]) > sarg[1].concurrency
    /\ Cardinality(InFlight(1)) = sarg[1].concurrency
    /\ \E k \in 1..Len(stask[1]) : stask[1][k].st = "wait"

StreamingEntryPoints == {"stream", "stream_async", "papers", "news"}

\* the row has a summary, or the run yielded an error entry for it
Accounted(r, id) ==
    db[id].summary # None \/ <<id, "error">> \in Range(sout[r])

\* the local summarizer makes nothing of the row
NoLocalText(row) == ~OptTruthy(summarize_extractive(row.title, row.description))

\* a run through a streaming entry point whose selected rows are within the limit
WithinLimit(r) ==
    sarg[r].entry \in StreamingEntryPoints /\ Len(squeue[r]) <= sarg[r].limit

\* C6 as stated: when a streaming run over M rows within the limit has ended,
\* each of them has a summary or an error entry.
C6_AllAccounted ==
    \A r \in Runs : (spc[r] = "done" /\ WithinLimit(r)) =>
        \A k \in 1..Len(squeue[r]) : Accounted(r, squeue[r][k])

\* C6, amended: a streaming run over M rows within the limit ends, and when it
\* has ended each of the M rows has a summary, or an error entry, or is a row
\* the local summarizer makes nothing of (it is skipped and stays pending).
C6_Completeness ==
    /\ [](\A r \in Runs : (spc[r] = "done" /\ WithinLimit(r)) =>
            \A k \in 1..Len(squeue[r]) :
                Accounted(r, squeue[r][k]) \/ NoLocalText(db[squeue[r][k]]))
    /\ \A r \in Runs :
          (spc[r] \in {"seq", "batch", "drain"} /\ WithinLimit(r)) ~> (spc[r] = "done")

\* a run over three rows ended: one summarized, one with an error entry, one skipped
C6_Witness ==
    /\ spc[1] = "done" /\ WithinLimit(1)
    /\ \E k \in 1..Len(squeue[1]) : ~Accounted(1, squeue[1][k])
    /\ \E k \in 1..Len(squeue[1]) : <<squeue[1][k], "ok">> \in Range(sout[1])
    /\ \E k \in 1..Len(squeue[1]) : <<squeue[1][k], "error">> \in Range(sout[1])

QPos(r, id) == CHOOSE k \in 1..Len(squeue[r]) : squeue[r][k] = id
EndedAt(r, k) == CHOOSE i \in 1..Len(sorder[r]) : sorder[r][i] = k

\* C7: in a run with concurrency > 1 whose remote tasks ran, the entries are
\* yielded in the order the tasks ended.
C7_CompletionOrder ==
    \A r \in Runs : (Concurrent(sarg[r]) /\ sorder[r] # <<>>) =>
        \A i, j \in 1..Len(sout[r]) : i < j =>
            EndedAt(r, QPos(r, sout[r][i][1])) < EndedAt(r, QPos(r, sout[r][j][1]))

\* C8: in a run with concurrency > 1, the permits held and the permits free
\* add up to N while tasks run, whatever the calls that ended gave; and when
\* the run has ended every task has ended and every row whose call gave a text
\* has that summary stored and yielded, or an error entry.
C8_FailureIsolation ==
    \A r \in Runs : Concurrent(sarg[r]) =>
        /\ spc[r] = "batch" =>
              ssem[r] + Cardinality(InFlight(r)) = sarg[r].concurrency
        /\ spc[r] = "done" =>
              \A k \in 1..Len(squeue[r]) :
                  /\ stask[r][k].st = "done"
                  /\ stask[r][k].res = "text" =>
                        \/ /\ db[squeue[r][k]].summary = Some(LlmText)
                           /\ <<squeue[r][k], "ok">> \in Range(sout[r])
                        \/ <<squeue[r][k], "error">> \in Range(sout[r])

\* one call raised, one gave nothing, and the third row's text is stored
C8_Witness ==
    /\ spc[1] = "done" /\ Concurrent(sarg[1])
    /\ \E k \in 1..Len(squeue[1]) : stask[1][k].res = "exc"
    /\ \E k \in 1..Len(squeue[1]) : stask[1][k].res = "none"
    /\ \E k \in 1..Len(squeue[1]) :
          /\ stask[1][k].res = "text"
          /\ db[squeue[1][k]].summary = Some(LlmText)
          /\ <<squeue[1][k], "ok">> \in Range(sout[1])
          /\ EndedAt(1, k) = Len(sorder[1])

\* C9: no step of a fetch run changes the summary of a stored row.
C9_SummaryUntouched ==
    [][ev'.op \in FetchOps =>
          \A i \in 1..Len(db) : db'[i].summary = db[i].summary]_vars

\* the update committed over a row whose summary was written after the lookup
C9_Witness ==
    /\ ev.op = "update_stale"
    /\ db[SelectByUrl(db, ev.e.url)].summary # None

\* the max_age_days in force in fetch run p
DaysInForce(p) ==
    IF farg[p].max_age_days = None THEN max_age_days_default
    ELSE Val(farg[p].max_age_days)

\* C10: with t0 the time the run started and d the max_age_days in force (the
\* argument, the configured default when none is given): if d > 0 an entry
\* dated before t0 - d or not dated is not upserted, and a dated entry with a
\* url not before t0 - d is not rejected for its age; if d = 0 none is.
C10_CutoffCorrect ==
    [][ev'.op \in EntryOps =>
          LET d == DaysInForce(1)
              pub == ev'.e.published_at
          IN  /\ (d > 0 /\ (pub = None \/ Val(pub) < farg[1].t0 - d)) =>
                    (ev'.op \notin UpsertOps /\ db' = db)
              /\ (d > 0 /\ ev'.e.url # "" /\ pub # None /\ Val(pub) >= farg[1].t0 - d) =>
                    ev'.op # "skip_old"
              /\ d = 0 => ev'.op # "skip_old"]_vars

\* under the default, an entry dated exactly at the cutoff was stored in a run
\* that had rejected nothing yet; the clock has moved since the run started
C10_Witness ==
    /\ ev.op = "insert"
    /\ farg[1].max_age_days = None
    /\ ev.e.published_at = Some(farg[1].t0 - max_age_days_default)
    /\ now > farg[1].t0
\* the entry of the step got as far as the relevance stage of an adapter that
\* has one: no earlier test of the adapter rejected it
AtRelevanceStage(a, op) ==
    /\ HasFilter(a)
    /\ op \notin {"skip_old", "skip_points"}
    /\ a # "hn" => op # "skip_nourl"

\* C11: in the generic RSS, the news and the Hacker News adapter, with the
\* filter flag on, an entry that reaches the relevance stage passes it iff a
\* keyword hits, or the classifier's reply is yes, or its call failed; it is
\* dropped only on a keyword miss with a reply that is not yes. With the flag
\* off no entry is dropped for relevance.
C11_FailOpenRelevance ==
    [][ev'.op \in EntryOps =>
          LET a == farg[1].adapter
              kw == is_ai_related_keywords(ev'.e.title, InDescription(a, ev'.e))
          IN  /\ (farg[1].flag /\ AtRelevanceStage(a, ev'.op)) =>
                    ((ev'.op # "skip_irrelevant") <=> (kw \/ cls' \in {"yes", "error"}))
              /\ ev'.op = "skip_irrelevant" => (~kw /\ cls' \in {"no", ""})
              /\ ~farg[1].flag => ev'.op # "skip_irrelevant"]_vars

\* with the flag on, an entry without a keyword was stored when the call failed
C11_Witness ==
    /\ ev.op = "insert" /\ farg[1].flag /\ HasFilter(farg[1].adapter)
    /\ ~is_ai_related_keywords(ev.e.title, ev.e.description)
    /\ cls = "error"
\* C15: whenever persisting a row's summary raises, in any summarization entry
\* point, the run yields an error entry for that row and goes on with the rows
\* left: it is not ended by the exception.
C15_RowErrorContained ==
    [][ev'.op = "sum_error" =>
          /\ \E id \in Range(squeue[1]) : sout'[1] = Append(sout[1], <<id, "error">>)
          /\ spc'[1] # "crashed"]_vars

\* C16: whenever the commit of one row's insert or update fails, in any fetch
\* adapter, the table is left as it was and the run goes on with the entries
\* that follow.
C16_UpsertErrorContained ==
    [][ev'.op \in {"rollback", "update_failed"} => (db' = db /\ fpc'[1] = "run")]_vars
\* C17: a fetch run takes its sources in the order the caller gave them (for
\* Hacker News the terms, then the front page); a source whose request or parse
\* failed gives no entry and does not end the run; the run returns only after
\* it has taken every source.
C17_SourceContainment ==
    /\ fpc[1] # "crashed"
    /\ Len(flog) <= Len(fsrcs)
    /\ \A i \in 1..Len(flog) : flog[i].src = fsrcs[i]
    /\ \A i \in 1..Len(flog) : flog[i].st = "failed" => flog[i].n = 0
    /\ ev.op = "end" => Len(flog) = Len(fsrcs)
    /\ farg[1].adapter = "hn" =>
          (fsrcs[Len(fsrcs)] = "front_page" /\ SubSeq(fsrcs, 1, Len(fsrcs) - 1) \in SourceLists)

\* the first of three sources failed, the next two were fetched and their
\* entries stored
C17_Witness ==
    /\ ev.op = "end"
    /\ Len(flog) = 3
    /\ flog[1].st = "failed" /\ flog[2].n > 0 /\ flog[3].n > 0
    /\ Len(db) = 2
\* C12: when an admin token is configured and the token of a refresh request is
\* missing or differs from it, the request ends unauthorized: it yields no
\* line, starts no fetch and no summarization run, writes nothing to the
\* table, and nothing follows it.
C12_UnauthorizedNoWork ==
    [][/\ (rpc \in {"idle", "done"} /\ ev'.op \in {"req", "req_401"} /\ rarg'.admin_token # ""
                /\ rarg'.token # Some(rarg'.admin_token)) =>
             /\ rpc' = "unauthorized"
             /\ rout' = <<>>
             /\ UNCHANGED <<db, fpc, fchanged, spc, sout>>
       /\ rpc = "unauthorized" =>
             /\ rpc' = "unauthorized"
             /\ UNCHANGED <<db, fpc, fchanged, spc, sout, rout>>]_vars

C12_Witness ==
    /\ rpc = "unauthorized"
    /\ rarg.admin_token = "secret"
    /\ rarg.token = Some("wrong")
    /\ rarg.endpoint = "papers_stream"
    /\ fpc[1] = "idle" /\ spc[1] = "idle"
    /\ Len(db) = 2

\* the place of a line in the order of a stream
Phase(l) ==
    CASE l = "start" -> 0
      [] l \in {"fetching", "feed", "item", "fetch_error", "fetched",
                "fetching_hn", "fetched_hn"} -> 1
      [] l = "summarizing" -> 2
      [] l \in {"summarized", "summarized_error"} -> 3
      [] l = "total" -> 4
      [] l = "done" -> 5

LinesOf(ls) == {i \in 1..Len(rout) : rout[i][1] \in ls}

\* the lines of a stream follow the phases; the lines that open and close a
\* phase come once; the summary lines are numbered from 1 and the total is
\* their number; a finished stream ends with done
PhaseOrder ==
    /\ \A i, j \in 1..Len(rout) : i < j => Phase(rout[i][1]) <= Phase(rout[j][1])
    /\ \A l \in {"start", "fetching", "fetched", "summarizing", "total", "done"} :
          Cardinality(LinesOf({l})) <= 1
    /\ rout # <<>> => rout[1][1] = "start"
    /\ \A i \in LinesOf({"fetched", "fetch_error"}) : \E j \in 1..(i - 1) : rout[j][1] = "fetching"
    /\ \A i \in LinesOf({"summarized", "summarized_error"}) :
          rout[i][2] = Cardinality({j \in LinesOf({"summarized", "summarized_error"}) : j <= i})
    /\ \A i \in LinesOf({"total"}) :
          rout[i][2] = Cardinality(LinesOf({"summarized", "summarized_error"}))
    /\ \A i \in LinesOf({"done"}) : i = Len(rout) /\ LinesOf({"total"}) = {i - 1}
    /\ rpc = "done" => rout[Len(rout)][1] = "done"

C14_StreamReachesDone ==
    (rpc = "start" /\ Streaming(rarg.endpoint)) ~>
        (rpc = "done" /\ rout # <<>> /\ rout[Len(rout)] = Line("done", 0))

C14_Witness ==
    /\ rpc = "done"
    /\ rarg.endpoint = "news_stream"
    /\ \E i \in 1..Len(flog) : flog[i].st = "failed"
    /\ \E i \in 1..Len(rout) : rout[i] = Line("summarized_error", 1)
    /\ rout[Len(rout)] = Line("done", 0)

\* C18 as stated: an entry whose url is stored is written, with updated_at
\* set to the time of the write, exactly when its description differs from the
\* stored one, or its date fills a null stored date or differs from it, or its
\* fingerprint differs from the stored one; otherwise the table is unchanged.
\* When the description differs, the stored description becomes the incoming
\* one and the fingerprint changes; the id stays.
C18_UpdateRule ==
    [][ev'.op \in {"update", "noop"} =>
          LET a == farg[1].adapter
              e == ev'.e
              i == SelectByUrl(db, e.url)
              d == InDescription(a, e)
              descDiffers == OrEmpty(d) # OrEmpty(db[i].description)
              dateNew == e.published_at # None /\ e.published_at # db[i].published_at
              fp == ComputeHash(e.title, e.url, d)
              write == descDiffers \/ dateNew \/ fp # db[i].content_hash
          IN  /\ (ev'.op = "update") <=> write
              /\ ~write => db' = db
              /\ write => (db'[i].updated_at = now /\ db'[i].id = db[i].id)
              /\ descDiffers => /\ OrEmpty(db'[i].description) = OrEmpty(d)
                                /\ db'[i].content_hash # db[i].content_hash]_vars

\* C18, amended: the entry is written exactly when its description is not
\* empty and differs from the stored one, or its date is present and differs
\* from the stored one (null included), or its fingerprint differs from the
\* stored one; otherwise the table is unchanged. A write sets updated_at and
\* the fingerprint, sets the description only to a non-empty incoming one and
\* the date only to a present incoming one, and leaves the id, every other
\* field and every other row as they were; the fingerprint covers the first
\* HashPrefixLen characters of the description only.
C18_UpdateRuleNonEmpty ==
    [][ev'.op \in {"update", "noop"} =>
          LET a == farg[1].adapter
              e == ev'.e
              i == SelectByUrl(db, e.url)
              d == InDescription(a, e)
              descNew == OptTruthy(d) /\ d # db[i].description
              dateNew == e.published_at # None /\ e.published_at # db[i].published_at
              fp == <<e.title, e.url, TakeText(OrEmpty(d), HashPrefixLen)>>
              write == descNew \/ dateNew \/ fp # db[i].content_hash
          IN  /\ i # 0
              /\ (ev'.op = "update") <=> write
              /\ ~write => db' = db
              /\ write => db' = [db EXCEPT ![i] =
                                    [@ EXCEPT !.description = IF descNew THEN d ELSE @,
                                              !.published_at = IF dateNew THEN e.published_at ELSE @,
                                              !.content_hash = fp,
                                              !.updated_at = now]]]_vars

\* a description that changed past the hashed prefix was written: the stored
\* fingerprint is still that of the description before
C18_Witness ==
    /\ ev.op = "update"
    /\ ev.e.description = Some(DLong2) /\ ev.e.published_at = None
    /\ db[1].description = Some(DLong2)
    /\ db[1].content_hash = ComputeHash(TAi, "A", Some(DLong1))
    /\ db[1].updated_at > db[1].created_at

\* the rows a run that ended went through: all it selected, or, in a paper or
\* news run, those before the row at which it stopped counting
Handled(r) == {squeue[r][k] : k \in 1..(spos[r] - 1)}

\* the summary of a row is the local one: the first two sentences of the
\* cleaned description cut to ExtractLimit, the title cut to TitleLimit
LocalSummary(row) ==
    /\ row.summary # None
    /\ row.summary = summarize_extractive(row.title, row.description)
    /\ row.description = Some(DText) =>
          row.summary = Some(<<Seg("x", 100), Seg("end", 1), Seg("ws", 1), Seg("y", 78)>>)
    /\ (row.description = None /\ row.title = TLong) => row.summary = Some(<<Seg("t", 120)>>)
    /\ (row.description = None /\ row.title = TAi) => row.summary = Some(TAi)

InQueueOrder(a, b) ==
    /\ a.published_at = None => b.published_at = None
    /\ (a.published_at # None /\ b.published_at # None) =>
          Val(a.published_at) >= Val(b.published_at)
    /\ a.published_at = b.published_at => a.created_at >= b.created_at

\* C20: the queue of a run holds rows that had no summary when it started, all
\* of them up to the limit, in the order of InQueueOrder, the rows left out
\* coming after those in it; a sequential run has handled the rows before its
\* position and no row after it, and has yielded in the order of the queue.
C20_QueueOrder ==
    (spc[1] \in {"seq", "done"} /\ sarg[1].concurrency = 1) =>
        LET q == squeue[1]
            P == (1..Len(db)) \ snonnull[1]
        IN  /\ \A k \in 1..Len(q) : q[k] \in P
            /\ \A i, j \in 1..Len(q) : i # j => q[i] # q[j]
            /\ Len(q) = Cardinality(P) \/ Len(q) = sarg[1].limit
            /\ \A i, j \in 1..Len(q) : i < j => InQueueOrder(db[q[i]], db[q[j]])
            /\ \A i \in 1..Len(q) : \A id \in P \ Range(q) : InQueueOrder(db[q[i]], db[id])
            /\ \A k \in 1..Len(q) :
                  IF k < spos[1]
                  THEN db[q[k]].summary # None \/ <<q[k], "error">> \in Range(sout[1])
                          \/ sarg[1].entry = "pending"
                  ELSE db[q[k]].summary = None /\ \A o \in Range(sout[1]) : o[1] # q[k]
            /\ \A i, j \in 1..Len(sout[1]) :
                  i < j => QPos(1, sout[1][i][1]) < QPos(1, sout[1][j][1])

\* the rows of run r the summarizers were invoked for: those the row loop went
\* through and those whose remote task started
Invoked(r) ==
    {squeue[r][k] : k \in 1..(spos[r] - 1)} \cup
    {squeue[r][k] : k \in {j \in 1..Len(stask[r]) : stask[r][j].st # "wait"}}

\* C21: a run with limit L invokes the summarizers for at most L rows, all of
\* them among the first L of the queue, and writes at most L summaries,
\* through every entry point, also when rows yield no text or fail.
C21_LimitCap ==
    \A r \in Runs : spc[r] # "idle" =>
        /\ Cardinality(Invoked(r)) <= sarg[r].limit
        /\ Cardinality(swrote[r]) <= sarg[r].limit
        /\ \A k \in 1..Len(squeue[r]) :
              squeue[r][k] \in Invoked(r) \cup swrote[r] => k <= sarg[r].limit

\* C22: the list a fetch run returns holds exactly the rows it wrote: a step
\* that inserts or updates a row appends that row, any other step of an entry
\* leaves the table and the list as they were; the streaming arXiv run yields
\* one upsert event per write; the count a handler reports is the length of
\* the list, and the synchronous refresh reports updated as the sum of its two
\* counts.
C22_ChangedSet ==
    [][/\ ev'.op \in EntryOps =>
             /\ IF ev'.op \in {"insert", "update"}
                THEN /\ db' # db
                     /\ fchanged'[1] = Append(fchanged[1], SelectByUrl(db', ev'.e.url))
                     /\ \A i \in 1..Len(db) : i # SelectByUrl(db', ev'.e.url) => db'[i] = db[i]
                ELSE db' = db /\ fchanged'[1] = fchanged[1]
             /\ rarg.endpoint = "papers_stream" =>
                   Cardinality({i \in 1..Len(rout') : rout'[i][1] = "item"}) = Len(fchanged'[1])
       /\ ev'.op = "end" =>
             /\ rout'[Len(rout')][2] = Len(fchanged[1])
             /\ rout'[Len(rout')][1] \in {"fetched", "fetched_hn", "rss_updated"}
       /\ (ev'.op = "sum_end" /\ rarg.endpoint = "refresh" /\ rpc' = "done") =>
             \E a, b \in 0..MaxChanged :
                 /\ Line("rss_updated", a) \in Range(rout)
                 /\ (Line("hn_updated", b) \in Range(rout)
                        \/ (b = 0 /\ ~rarg.include_hn))
                 /\ Line("updated", a + b) \in Range(rout')]_vars

\* a synchronous refresh ended: its feed run wrote one row twice
C22_Witness ==
    /\ rpc = "done" /\ rarg.endpoint = "refresh"
    /\ Len(db) = 1
    /\ Line("rss_updated", 2) \in Range(rout)
    /\ Line("hn_updated", 1) \in Range(rout)
    /\ Line("updated", 3) \in Range(rout)

\* C23: with the filter flag on, an entry that holds no keyword and that the
\* remote classifier answers false for is never looked up or upserted, by any
\* adapter.
C23_EveryAdapterFilters ==
    [][(ev'.op \in {"insert", "update", "noop", "rollback", "update_failed"}
            /\ farg[1].flag) =>
          \/ is_ai_related_keywords(ev'.e.title, InDescription(farg[1].adapter, ev'.e))
          \/ is_ai_related_llm_sync(cls') # Some(FALSE)]_vars

\* C24: a streaming refresh request is let in exactly when no admin token is
\* configured or its token is the configured one, on every streaming endpoint.
C24_EnforcedWhenConfigured ==
    [][(ev'.op \in {"req", "req_401"} /\ Streaming(rarg'.endpoint)) =>
          ((rpc' = "start") <=>
              (rarg'.admin_token = "" \/ rarg'.token = Some(rarg'.admin_token)))]_vars

\* the row the row loop or the result loop of run r handles next
HandledNext(r) ==
    squeue[r][IF spc[r] = "seq" THEN spos[r] ELSE NextResult(r)]

\* a row with an empty title and no description, or one of which cleaning
\* leaves nothing
Textless(row) == row.title = <<>> /\ Clean(OrEmpty(row.description)) = <<>>

\* C25: when neither summarizer yields text for a row, the run writes nothing,
\* the row's summary stays null, no entry is yielded for it, the run goes on
\* to the next row and does not come back to it; a row without text gets a
\* summary only from the remote summarizer.
C25_TextlessRowSkipped ==
    [][ev'.op \in {"sum_skip", "sum_write", "sum_error"} =>
          LET id == HandledNext(1)
          IN  /\ ev'.op = "sum_skip" =>
                    /\ Textless(db[id])
                    /\ db' = db /\ db'[id].summary = None
                    /\ sout'[1] = sout[1] /\ swrote'[1] = swrote[1]
                    /\ spos'[1] = spos[1] + 1
                    /\ spc'[1] \in {"seq", "batch", "drain", "done"}
                    /\ spc'[1] = "done" =>
                          (spos[1] = Len(squeue[1]) \/ sarg[1].entry \in {"papers", "news"})
              /\ (Textless(db[id]) /\ ev'.op = "sum_write") =>
                    db'[id].summary = Some(LlmText)
              /\ \A i, j \in 1..Len(squeue[1]) : i # j => squeue[1][i] # squeue[1][j]
              /\ \A k \in 1..(spos[1] - 1) :
                    sarg[1].entry # "stream_async" => squeue[1][k] # id]_vars

\* a row without text was skipped after a row was summarized, and the run goes on
C25_Witness ==
    /\ ev.op = "sum_skip"
    /\ spos[1] = 3 /\ Len(squeue[1]) = 3
    /\ Textless(db[squeue[1][2]]) /\ db[squeue[1][2]].summary = None
    /\ sout[1] = <<<<squeue[1][1], "ok">>>>
    /\ spc[1] \in {"seq", "drain"}

\* C26: whatever the interleaving of the calls of get_engine by the threads of
\* request handlers and scheduler jobs, one engine at most has been created,
\* and every call that returned gave the engine the process holds.
C26_EngineSingleton ==
    /\ created <= 1
    /\ engine = created
    /\ \A t \in EngineThreads : ecalls[t] > 0 => (eret[t] = 1 /\ created = 1)

\* two threads are inside get_engine at once, after one of them got the engine
C26_Witness ==
    /\ epc[1] = "called" /\ epc[2] = "return"
    /\ ecalls[1] = 1 /\ eret[1] = 1
    /\ created = 1

\* C27: in every reachable state the content_hash of each stored row is the
\* fingerprint of the title, url and description that row holds.
C27_FingerprintConsistent ==
    \A i \in 1..Len(db) :
        db[i].content_hash = ComputeHash(db[i].title, db[i].url, db[i].description)

\* C28: no step sets the published_at of a stored row back to null, and an
\* entry without a date leaves the published_at of every stored row as it was.
C28_PublishedKept ==
    [][/\ Len(db') >= Len(db)
       /\ \A i \in 1..Len(db) :
             /\ db[i].published_at # None => db'[i].published_at # None
             /\ (ev'.op \in EntryOps /\ ev'.e.published_at = None) =>
                   db'[i].published_at = db[i].published_at]_vars

\* an entry without a date was written over a row that has one
C28_Witness ==
    /\ ev.op = "update"
    /\ ev.e.published_at = None
    /\ Len(db) = 1 /\ db[1].published_at = Some(MaxClock - 1)
    /\ db[1].updated_at > db[1].created_at

\* C29: once fetch_news and fetch_hn have each returned from one run over the
\* unchanged sources, no later step of either writes a row of the table or
\* adds to new_or_updated.
C29_Converged ==
    [][(rounds["news"] >= 1 /\ rounds["hn"] >= 1) =>
          (db' = db /\ fchanged'[1] = <<>>)]_vars

\* C30: when a streaming refresh ends, the number of its 'summarized total'
\* line is the number of rows whose summary the run wrote and committed.
C30_TotalIsWritten ==
    [][(rpc = "rows" /\ rpc' = "done" /\ Streaming(rarg.endpoint)) =>
          \E j \in 1..Len(rout') :
              rout'[j] = Line("total", Cardinality(swrote[1]))]_vars

====
